---- MODULE Spec2Model ----
(***************************************************************************)
(* Model of game_stat's Stat<M> (src/src/stat.rs): a base value, a cached  *)
(* value and a fixed array of M modifier slots whose entries live as long  *)
(* as a reference-counted handle to their owner token is alive.            *)
(*                                                                         *)
(* f32 numbers are modelled by integers: the modifiers used here add or    *)
(* multiply small integers, which f32 represents exactly, so no rounding   *)
(* is involved in the values the model reaches.                            *)
(* Option<T> is modelled as a sequence of length at most one: None is      *)
(* << >> and Some(x) is <<x>>.                                             *)
(***************************************************************************)
EXTENDS Integers, Sequences, FiniteSets

\* const M: usize, the capacity of the modifier array.
M == 2
\* The largest number of handle clones (handles beyond the one add returned)
\* alive at a time, over all tokens.
MaxClones == 1
\* The number of value() calls with no add or handle drop in between that
\* the model tells apart.
MaxStreak == 2

\* The base values a caller constructs a Stat with or writes to base_value.
BaseValues == {10, 20}
\* The orders a caller passes to add_modifier_with_order.
Orders == {-1}
\* The modifiers a caller adds: "+5" and "x2".
StatModifiers == {[kind |-> "Flat", v |-> 5], [kind |-> "Mul", v |-> 2]}

\* Owner tokens (StatModifierHandleTag allocations). At most M are referenced
\* at a time: a token is created only for a free slot.
Tokens == 1..M

None == << >>
Some(x) == <<x>>
is_none(o) == o = None
is_some(o) == o # None
unwrap(o) == o[1]

VARIABLES
  stat,      \* the Stat: [base_value, value, modifiers]
  strong,    \* strong[t]: the number of live handles (Rc clones) of token t
  given,     \* given[t]: Some([modifier, order]) the caller added with the
             \* live token t, None when t has no live handle (history)
  last_op,   \* the operation that ran last
  ret,       \* what the last add or value() call returned, kept over handle
             \* clones and base_value writes that follow a value() call;
             \* after a drop: the token of the dropped handle
  ncalc,     \* how many times calculate_value ran in the last call
  applied,   \* the tokens whose modifier the last call's last
             \* calculate_value applied, in application sequence
  streak,    \* value() calls since the last add or handle drop (saturating)
  adds,      \* add calls since construction (saturating at M + 1), kept
             \* by the counted specification only
  wrote,     \* "pending": base_value was written since the last
             \* calculate_value; "seen": the last add call started so and
             \* ran calculate_value; "no" otherwise. Kept by the
             \* specification that notes base_value writes only
  call       \* the add or value() call in progress while handles are
             \* dropped on other threads (feature "sync"): where it is in
             \* the code and what it has computed; idle in the
             \* specifications whose calls run undisturbed

vars ==
  <<stat, strong, given, last_op, ret, ncalc, applied, streak, adds, wrote,
    call>>

Min(a, b) == IF a < b THEN a ELSE b

\* The sequences that list every element of S once.
Orderings(S) ==
  {p \in [1..Cardinality(S) -> S] : \A i, j \in 1..Cardinality(S) :
                                       p[i] = p[j] => i = j}

\* ---------------------------------------------------------------- modifier
\* crate::modifier::StatModifier: apply(&mut value) and default_order().
apply(modifier, value) ==
  IF modifier.kind = "Flat" THEN value + modifier.v ELSE value * modifier.v

default_order(modifier) == IF modifier.kind = "Flat" THEN 0 ELSE 1

\* ---------------------------------------------------------------- handles
\* A Weak whose upgrade never fails.
upgradeAlways(weak, rc) == Some(weak)

\* A Weak that upgrades only while two or more handles are alive.
upgradeNeedsTwo(weak, rc) == IF rc[weak] > 1 THEN Some(weak) ELSE None

\* Weak::upgrade(): Some while the token has a live strong reference.
upgrade(weak, rc) == IF rc[weak] > 0 THEN Some(weak) ELSE None

\* ReferenceCounted::new(StatModifierHandleTag): a fresh allocation, which is
\* none of the tokens still referenced by a handle or by a slot's weak
\* reference. Token identity is opaque, so the least free one is taken.
WeakRefs(modifiers) ==
  {unwrap(modifiers[i]).owner_modifier_weak :
     i \in {j \in 1..Len(modifiers) : is_some(modifiers[j])}}

FreeTokens(modifiers, rc) ==
  {t \in Tokens : rc[t] = 0 /\ t \notin WeakRefs(modifiers)}

ReferenceCounted_new(modifiers, rc) ==
  CHOOSE t \in FreeTokens(modifiers, rc) :
    \A u \in FreeTokens(modifiers, rc) : t <= u

\* ---------------------------------------------------------------- Stat
\* A constructor that leaves the cached value at zero.
newZeroValue(b) ==
  [base_value |-> b, value |-> 0, modifiers |-> [i \in 1..M |-> None]]

\* Stat::new: every slot None, value = base_value.
new(b) ==
  [base_value |-> b, value |-> b, modifiers |-> [i \in 1..M |-> None]]

\* A closure that sorts the empty slots to the front.
compareEmptyFirst(m1_option, m2_option) ==
  IF is_some(m1_option)
  THEN IF is_some(m2_option)
       THEN IF unwrap(m1_option).order < unwrap(m2_option).order THEN "Less"
            ELSE IF unwrap(m1_option).order > unwrap(m2_option).order
                 THEN "Greater" ELSE "Equal"
       ELSE "Greater"
  ELSE IF is_some(m2_option) THEN "Less" ELSE "Equal"

\* The closure given to sort_by.
compare(m1_option, m2_option) ==
  IF is_some(m1_option)
  THEN IF is_some(m2_option)
       THEN IF unwrap(m1_option).order < unwrap(m2_option).order THEN "Less"
            ELSE IF unwrap(m1_option).order > unwrap(m2_option).order
                 THEN "Greater" ELSE "Equal"
       ELSE "Less"
  ELSE "Greater"

\* An insertion that writes the element over the one it passes instead of
\* shifting it.
RECURSIVE insertTailOverwrite(_, _)
insertTailOverwrite(s, x) ==
  IF s = << >> THEN <<x>>
  ELSE IF compare(x, s[Len(s)]) = "Less"
       THEN Append(insertTailOverwrite(SubSeq(s, 1, Len(s) - 1), x), x)
       ELSE Append(s, x)

\* An insertion that also moves the element past the elements it is Equal
\* to: a sort that is not stable.
RECURSIVE insertTailPastEqual(_, _)
insertTailPastEqual(s, x) ==
  IF s = << >> THEN <<x>>
  ELSE IF compare(x, s[Len(s)]) \in {"Less", "Equal"}
       THEN Append(insertTailPastEqual(SubSeq(s, 1, Len(s) - 1), x), s[Len(s)])
       ELSE Append(s, x)

\* slice::sort_by: a stable sort that moves an element in front of another
\* only when compare says Less; for slices this short it is an insertion
\* sort, each element shifted left past the elements it is Less than.
RECURSIVE insert_tail(_, _)
insert_tail(s, x) ==
  IF s = << >> THEN <<x>>
  ELSE IF compare(x, s[Len(s)]) = "Less"
       THEN Append(insert_tail(SubSeq(s, 1, Len(s) - 1), x), s[Len(s)])
       ELSE Append(s, x)

\* No sorting: the slots stay in the sequence they are in.
sortNone(s) == s

RECURSIVE sort_by(_)
sort_by(s) ==
  IF s = << >> THEN << >>
  ELSE insert_tail(sort_by(SubSeq(s, 1, Len(s) - 1)), s[Len(s)])

\* The loop without "None => *modifier_meta_option = None": a dropped entry
\* is skipped and stays in its slot.
RECURSIVE walkNoClear(_, _, _, _)
walkNoClear(sorted, rc, i, acc) ==
  IF i > Len(sorted) THEN acc
  ELSE IF is_none(sorted[i]) THEN walkNoClear(sorted, rc, i + 1, acc)
  ELSE IF rc[unwrap(sorted[i]).owner_modifier_weak] > 0
       THEN walkNoClear(sorted, rc, i + 1,
                 [acc EXCEPT
                    !.value = apply(unwrap(sorted[i]).modifier, acc.value),
                    !.applied = Append(acc.applied,
                                       unwrap(sorted[i]).owner_modifier_weak)])
       ELSE walkNoClear(sorted, rc, i + 1, acc)

\* The loop of calculate_value over the sorted slots from slot i on, with
\* the accumulator acc: [value, modifiers, applied].
RECURSIVE walk(_, _, _, _)
walk(sorted, rc, i, acc) ==
  IF i > Len(sorted) THEN acc
  ELSE IF is_none(sorted[i]) THEN walk(sorted, rc, i + 1, acc)
  ELSE IF is_some(upgrade(unwrap(sorted[i]).owner_modifier_weak, rc))
       THEN walk(sorted, rc, i + 1,
                 [acc EXCEPT
                    !.value = apply(unwrap(sorted[i]).modifier, acc.value),
                    !.applied = Append(acc.applied,
                                       unwrap(sorted[i]).owner_modifier_weak)])
       ELSE walk(sorted, rc, i + 1, [acc EXCEPT !.modifiers[i] = None])

\* Stat::calculate_value: [self, ncalc, applied].
calculate_value(self, rc) ==
  LET sorted == sort_by(self.modifiers)
      w == walk(sorted, rc, 1,
                [value |-> self.base_value, modifiers |-> sorted,
                 applied |-> << >>])
  IN [self |-> [self EXCEPT !.value = w.value, !.modifiers = w.modifiers],
      ncalc |-> 1, applied |-> w.applied]

\* A check that always reports a dropped modifier.
anyDroppedAlways(self, rc) == TRUE

\* A check that looks at the first slot only.
anyDroppedFirstSlot(self, rc) ==
  /\ is_some(self.modifiers[1])
  /\ rc[unwrap(self.modifiers[1]).owner_modifier_weak] = 0

any_modifier_dropped(self, rc) ==
  \E i \in 1..M :
    /\ is_some(self.modifiers[i])
    /\ is_none(upgrade(unwrap(self.modifiers[i]).owner_modifier_weak, rc))

\* An update_modifiers that never recalculates.
updateNever(self, rc) == [self |-> self, ncalc |-> 0, applied |-> << >>]

\* Stat::update_modifiers: [self, ncalc, applied].
update_modifiers(self, rc) ==
  IF any_modifier_dropped(self, rc)
  THEN calculate_value(self, rc)
  ELSE [self |-> self, ncalc |-> 0, applied |-> << >>]

\* A value() that reads self.value before update_modifiers.
valueBeforeUpdate(self, rc) ==
  LET u == update_modifiers(self, rc)
  IN [self |-> u.self, ret |-> [tag |-> "f32", val |-> self.value],
      ncalc |-> u.ncalc, applied |-> u.applied]

\* Stat::value: [self, ret, ncalc, applied].
value(self, rc) ==
  LET u == update_modifiers(self, rc)
  IN [self |-> u.self, ret |-> [tag |-> "f32", val |-> u.self.value],
      ncalc |-> u.ncalc, applied |-> u.applied]

\* self.modifiers.iter_mut().find(|m| m.is_none()): Some(index) or None.
find_none(modifiers) ==
  IF \E i \in 1..Len(modifiers) : is_none(modifiers[i])
  THEN Some(CHOOSE i \in 1..Len(modifiers) :
              /\ is_none(modifiers[i])
              /\ \A j \in 1..(i - 1) : is_some(modifiers[j]))
  ELSE None

Err == [tag |-> "Err", val |-> 0]
Ok(key) == [tag |-> "Ok", val |-> key]

\* An add_modifier that stores order 0 whatever the modifier.
addModifierOrderZero(self, rc, modifier) ==
  LET u == update_modifiers(self, rc)
      slot == find_none(u.self.modifiers)
  IN IF is_some(slot)
     THEN LET key == ReferenceCounted_new(u.self.modifiers, rc)
              meta == [order |-> 0,
                       modifier |-> modifier,
                       owner_modifier_weak |-> key]
              rc1 == [rc EXCEPT ![key] = 1]
              c == calculate_value(
                     [u.self EXCEPT !.modifiers[unwrap(slot)] = Some(meta)],
                     rc1)
          IN [self |-> c.self, rc |-> rc1, ret |-> Ok(key),
              ncalc |-> u.ncalc + c.ncalc, applied |-> c.applied]
     ELSE [self |-> u.self, rc |-> rc, ret |-> Err,
           ncalc |-> u.ncalc, applied |-> u.applied]

\* Stat::add_modifier: [self, rc, ret, ncalc, applied].
add_modifier(self, rc, modifier) ==
  LET u == update_modifiers(self, rc)
      slot == find_none(u.self.modifiers)
  IN IF is_some(slot)
     THEN LET key == ReferenceCounted_new(u.self.modifiers, rc)
              meta == [order |-> default_order(modifier),
                       modifier |-> modifier,
                       owner_modifier_weak |-> key]
              rc1 == [rc EXCEPT ![key] = 1]
              c == calculate_value(
                     [u.self EXCEPT !.modifiers[unwrap(slot)] = Some(meta)],
                     rc1)
          IN [self |-> c.self, rc |-> rc1, ret |-> Ok(key),
              ncalc |-> u.ncalc + c.ncalc, applied |-> c.applied]
     ELSE [self |-> u.self, rc |-> rc, ret |-> Err,
           ncalc |-> u.ncalc, applied |-> u.applied]

\* An add_modifier_with_order that stores the entry and leaves the cached
\* value for a later call to update.
addWithOrderNoRecalc(self, rc, modifier, order) ==
  LET u == update_modifiers(self, rc)
      slot == find_none(u.self.modifiers)
  IN IF is_some(slot)
     THEN LET key == ReferenceCounted_new(u.self.modifiers, rc)
              meta == [modifier |-> modifier,
                       owner_modifier_weak |-> key,
                       order |-> order]
          IN [self |-> [u.self EXCEPT !.modifiers[unwrap(slot)] = Some(meta)],
              rc |-> [rc EXCEPT ![key] = 1], ret |-> Ok(key),
              ncalc |-> u.ncalc, applied |-> u.applied]
     ELSE [self |-> u.self, rc |-> rc, ret |-> Err,
           ncalc |-> u.ncalc, applied |-> u.applied]

\* Stat::add_modifier_with_order: [self, rc, ret, ncalc, applied].
add_modifier_with_order(self, rc, modifier, order) ==
  LET u == update_modifiers(self, rc)
      slot == find_none(u.self.modifiers)
  IN IF is_some(slot)
     THEN LET key == ReferenceCounted_new(u.self.modifiers, rc)
              meta == [modifier |-> modifier,
                       owner_modifier_weak |-> key,
                       order |-> order]
              rc1 == [rc EXCEPT ![key] = 1]
              c == calculate_value(
                     [u.self EXCEPT !.modifiers[unwrap(slot)] = Some(meta)],
                     rc1)
          IN [self |-> c.self, rc |-> rc1, ret |-> Ok(key),
              ncalc |-> u.ncalc + c.ncalc, applied |-> c.applied]
     ELSE [self |-> u.self, rc |-> rc, ret |-> Err,
           ncalc |-> u.ncalc, applied |-> u.applied]

\* ---------------------------------------------------------------- state
NoRet == [tag |-> "none", val |-> 0]
Handle(t) == [tag |-> "handle", val |-> t]

\* No call in progress.
Idle ==
  [pc |-> "idle", op |-> "none", i |-> 0, acc |-> 0, final |-> FALSE,
   key |-> 0, modifier |-> None, order |-> 0, start |-> {}, okvals |-> {},
   ret |-> NoRet]

Init ==
  /\ \E b \in BaseValues : stat = new(b)
  /\ strong = [t \in Tokens |-> 0]
  /\ given = [t \in Tokens |-> None]
  /\ last_op = "new"
  /\ ret = NoRet
  /\ ncalc = 0
  /\ applied = << >>
  /\ streak = 0
  /\ adds = 0
  /\ wrote = "no"
  /\ call = Idle

\* What an add call returning r leaves behind; the caller keeps the handle.
AddDone(r, op, modifier, order) ==
  /\ stat' = r.self
  /\ strong' = r.rc
  /\ given' = IF r.ret.tag = "Ok"
              THEN [given EXCEPT
                      ![r.ret.val] = Some([modifier |-> modifier,
                                           order |-> order])]
              ELSE given
  /\ last_op' = op
  /\ ret' = r.ret
  /\ ncalc' = r.ncalc
  /\ applied' = r.applied
  /\ streak' = 0

AddModifier ==
  /\ \E modifier \in StatModifiers :
       AddDone(add_modifier(stat, strong, modifier), "add_modifier",
               modifier, default_order(modifier))
  /\ UNCHANGED <<adds, wrote, call>>

AddModifierWithOrder ==
  /\ \E modifier \in StatModifiers, order \in Orders :
       AddDone(add_modifier_with_order(stat, strong, modifier, order),
               "add_modifier_with_order", modifier, order)
  /\ UNCHANGED <<adds, wrote, call>>

Value ==
  LET r == value(stat, strong)
  IN /\ stat' = r.self
     /\ ret' = r.ret
     /\ ncalc' = r.ncalc
     /\ applied' = r.applied
     /\ last_op' = "value"
     /\ streak' = Min(streak + 1, MaxStreak)
     /\ UNCHANGED <<strong, given, adds, wrote, call>>

\* The handle clones alive: the handles beyond the first of each token.
RECURSIVE Clones(_, _)
Clones(rc, t) ==
  IF t = 0 THEN 0
  ELSE Clones(rc, t - 1) + (IF rc[t] > 1 THEN rc[t] - 1 ELSE 0)

\* StatModifierHandle::clone (Rc::clone): one more strong reference.
CloneHandle ==
  \E t \in Tokens :
    /\ strong[t] >= 1
    /\ Clones(strong, M) < MaxClones
    /\ strong' = [strong EXCEPT ![t] = strong[t] + 1]
    /\ last_op' = "clone"
    /\ ret' = IF streak >= 1 THEN ret ELSE NoRet
    /\ ncalc' = 0
    /\ applied' = << >>
    /\ UNCHANGED <<stat, given, streak, adds, wrote, call>>

\* A drop that reaches into the Stat: the last handle empties its slot.
dropClearsSlot ==
  \E t \in Tokens :
    /\ strong[t] >= 1
    /\ strong' = [strong EXCEPT ![t] = strong[t] - 1]
    /\ given' = IF strong[t] = 1 THEN [given EXCEPT ![t] = None] ELSE given
    /\ stat' = IF strong[t] = 1
               THEN [stat EXCEPT
                       !.modifiers =
                         [i \in 1..M |->
                            IF /\ is_some(stat.modifiers[i])
                               /\ unwrap(stat.modifiers[i]).owner_modifier_weak = t
                            THEN None ELSE stat.modifiers[i]]]
               ELSE stat
    /\ last_op' = "drop"
    /\ ret' = Handle(t)
    /\ ncalc' = 0
    /\ applied' = << >>
    /\ streak' = 0
    /\ UNCHANGED <<adds, wrote, call>>

\* Drop of a StatModifierHandle (Rc::drop): one strong reference less; the
\* token dies with its last handle. The Stat is not touched.
DropHandle ==
  \E t \in Tokens :
    /\ strong[t] >= 1
    /\ strong' = [strong EXCEPT ![t] = strong[t] - 1]
    /\ given' = IF strong[t] = 1 THEN [given EXCEPT ![t] = None] ELSE given
    /\ last_op' = "drop"
    /\ ret' = Handle(t)
    /\ ncalc' = 0
    /\ applied' = << >>
    /\ streak' = 0
    /\ UNCHANGED <<stat, adds, wrote, call>>

\* stat.base_value = b (pub field). A write of the number the field already
\* holds leaves every field as it is.
WriteBase ==
  \E b \in BaseValues \ {stat.base_value} :
    /\ stat' = [stat EXCEPT !.base_value = b]
    /\ last_op' = "write_base"
    /\ ret' = IF streak >= 1 THEN ret ELSE NoRet
    /\ ncalc' = 0
    /\ applied' = << >>
    /\ UNCHANGED <<strong, given, streak, adds, wrote, call>>

Next ==
  \/ AddModifier
  \/ AddModifierWithOrder
  \/ Value
  \/ CloneHandle
  \/ DropHandle
  \/ WriteBase

Spec == Init /\ [][Next]_vars

\* The same Stat used by callers that never write base_value.
NextFixedBase ==
  \/ AddModifier
  \/ AddModifierWithOrder
  \/ Value
  \/ CloneHandle
  \/ DropHandle

SpecFixedBase == Init /\ [][NextFixedBase]_vars

\* The same, with the add calls counted.
AddModifierCounted ==
  /\ \E modifier \in StatModifiers :
       AddDone(add_modifier(stat, strong, modifier), "add_modifier",
               modifier, default_order(modifier))
  /\ adds' = Min(adds + 1, M + 1)
  /\ UNCHANGED <<wrote, call>>

AddModifierWithOrderCounted ==
  /\ \E modifier \in StatModifiers, order \in Orders :
       AddDone(add_modifier_with_order(stat, strong, modifier, order),
               "add_modifier_with_order", modifier, order)
  /\ adds' = Min(adds + 1, M + 1)
  /\ UNCHANGED <<wrote, call>>

NextCounted ==
  \/ AddModifierCounted
  \/ AddModifierWithOrderCounted
  \/ Value
  \/ CloneHandle
  \/ DropHandle

SpecCounted == Init /\ [][NextCounted]_vars

\* The same Stat with the base_value writes noted: whether the last add call
\* found base_value written since the last calculate_value.
Noted(nc) ==
  IF wrote = "pending" THEN (IF nc >= 1 THEN "seen" ELSE "pending") ELSE "no"

AddModifierNoted ==
  /\ \E modifier \in StatModifiers :
       AddDone(add_modifier(stat, strong, modifier), "add_modifier",
               modifier, default_order(modifier))
  /\ wrote' = Noted(ncalc')
  /\ UNCHANGED <<adds, call>>

AddModifierWithOrderNoted ==
  /\ \E modifier \in StatModifiers, order \in Orders :
       AddDone(add_modifier_with_order(stat, strong, modifier, order),
               "add_modifier_with_order", modifier, order)
  /\ wrote' = Noted(ncalc')
  /\ UNCHANGED <<adds, call>>

ValueNoted ==
  LET r == value(stat, strong)
  IN /\ stat' = r.self
     /\ ret' = r.ret
     /\ ncalc' = r.ncalc
     /\ applied' = r.applied
     /\ last_op' = "value"
     /\ streak' = Min(streak + 1, MaxStreak)
     /\ wrote' = IF r.ncalc >= 1 THEN "no" ELSE wrote
     /\ UNCHANGED <<strong, given, adds, call>>

WriteBaseNoted ==
  \E b \in BaseValues \ {stat.base_value} :
    /\ stat' = [stat EXCEPT !.base_value = b]
    /\ last_op' = "write_base"
    /\ ret' = IF streak >= 1 THEN ret ELSE NoRet
    /\ ncalc' = 0
    /\ applied' = << >>
    /\ wrote' = "pending"
    /\ UNCHANGED <<strong, given, streak, adds, call>>

NextNoted ==
  \/ AddModifierNoted
  \/ AddModifierWithOrderNoted
  \/ ValueNoted
  \/ DropHandle
  \/ WriteBaseNoted

SpecNoted == Init /\ [][NextNoted]_vars

\* ------------------------------------------------------ feature "sync"
\* With feature "sync" the handle is an Arc and the Weak a sync::Weak: a
\* handle may be dropped on another thread while the thread that owns the
\* Stat is inside value() or an add. The owner's code is private to its
\* thread except where it reads the reference count, Weak::upgrade(), so a
\* call is split at its upgrade() calls and the drops of the other threads
\* come in between. The adds are add_modifier calls; add_modifier_with_order
\* runs the same code with the caller's order in place of the default one.

\* The capacity of the Stat the threads share handles of.
SyncM == 3
SyncTokens == 1..SyncM

syncFresh(modifiers, rc) ==
  CHOOSE t \in SyncTokens :
    /\ rc[t] = 0 /\ t \notin WeakRefs(modifiers)
    /\ \A u \in SyncTokens :
         (rc[u] = 0 /\ u \notin WeakRefs(modifiers)) => t <= u

\* The slots of s whose token has a live handle.
LiveSlots(s, rc) ==
  {i \in 1..Len(s.modifiers) :
     /\ is_some(s.modifiers[i])
     /\ rc[unwrap(s.modifiers[i]).owner_modifier_weak] > 0}

\* acc folded through apply of the entries of the slots p lists.
RECURSIVE FoldSlots(_, _, _)
FoldSlots(acc, p, modifiers) ==
  IF Len(p) = 0 THEN acc
  ELSE FoldSlots(apply(unwrap(modifiers[p[1]]).modifier, acc),
                 [i \in 1..(Len(p) - 1) |-> p[i + 1]], modifiers)

\* The recomputations over the slots of S: base_value folded through their
\* entries in ascending order, one number per way of breaking ties.
ExpectedOver(s, S) ==
  {FoldSlots(s.base_value, p, s.modifiers) :
     p \in {q \in Orderings(S) :
             \A i, j \in 1..Len(q) :
               i < j => unwrap(s.modifiers[q[i]]).order
                          <= unwrap(s.modifiers[q[j]]).order}}

\* The recomputation over the modifiers alive right now.
ExpectedNow(s, rc) == ExpectedOver(s, LiveSlots(s, rc))

\* The call c has returned r: what is left of it is what it returned, the
\* key it created and what was noted of the instants it ran through.
Returned(c, r) ==
  [Idle EXCEPT !.pc = "done", !.op = c.op, !.key = c.key, !.start = c.start,
               !.okvals = c.okvals, !.ret = r]

\* The owner thread's code from the point c up to its next upgrade() or to
\* its return: [c, s, rc]. c.pc is "any" (the scan of any_modifier_dropped
\* at slot c.i), "sort" (calculate_value from its start), "walk" (its loop
\* at slot c.i), "store" (the add after update_modifiers) or "done".
RECURSIVE run(_, _, _)
run(c, s, rc) ==
  IF c.pc = "any"
  THEN IF c.i > Len(s.modifiers)
       THEN IF c.op = "value"
            THEN [c |-> Returned(c, [tag |-> "f32", val |-> s.value]),
                  s |-> s, rc |-> rc]
            ELSE run([c EXCEPT !.pc = "store"], s, rc)
       ELSE IF is_none(s.modifiers[c.i])
            THEN run([c EXCEPT !.i = c.i + 1], s, rc)
            ELSE [c |-> c, s |-> s, rc |-> rc]
  ELSE IF c.pc = "sort"
  THEN run([c EXCEPT !.pc = "walk", !.i = 1, !.acc = s.base_value],
           [s EXCEPT !.modifiers = sort_by(s.modifiers)], rc)
  ELSE IF c.pc = "walk"
  THEN IF c.i > Len(s.modifiers)
       THEN LET s1 == [s EXCEPT !.value = c.acc]
            IN IF c.final
               THEN [c |-> Returned(c, IF c.op = "value"
                                       THEN [tag |-> "f32", val |-> s1.value]
                                       ELSE Ok(c.key)),
                     s |-> s1, rc |-> rc]
               ELSE run([c EXCEPT !.pc = "store"], s1, rc)
       ELSE IF is_none(s.modifiers[c.i])
            THEN run([c EXCEPT !.i = c.i + 1], s, rc)
            ELSE [c |-> c, s |-> s, rc |-> rc]
  ELSE IF c.pc = "store"
  THEN LET slot == find_none(s.modifiers)
       IN IF is_some(slot)
          THEN LET key == syncFresh(s.modifiers, rc)
                   meta == [modifier |-> unwrap(c.modifier),
                            owner_modifier_weak |-> key,
                            order |-> c.order]
                   s1 == [s EXCEPT !.modifiers[unwrap(slot)] = Some(meta)]
                   rc1 == [rc EXCEPT ![key] = 1]
               IN run([c EXCEPT !.pc = "sort", !.final = TRUE, !.key = key,
                                !.okvals = @ \cup ExpectedNow(s1, rc1)],
                      s1, rc1)
          ELSE [c |-> Returned(c, Err), s |-> s, rc |-> rc]
  ELSE [c |-> c, s |-> s, rc |-> rc]

\* A Stat<SyncM> constructed with the least of the base values: the base
\* value is read once per calculate_value and no thread writes it.
InitSync ==
  /\ \E b \in {c \in BaseValues : \A e \in BaseValues : c <= e} :
       stat = [new(b) EXCEPT !.modifiers = [i \in 1..SyncM |-> None]]
  /\ strong = [t \in SyncTokens |-> 0]
  /\ given = [t \in SyncTokens |-> None]
  /\ last_op = "new"
  /\ ret = NoRet
  /\ ncalc = 0
  /\ applied = << >>
  /\ streak = 0
  /\ adds = 0
  /\ wrote = "no"
  /\ call = Idle

Running == call.pc \in {"any", "walk"}

\* The owner thread is at r.
SyncAt(r) ==
  /\ stat' = r.s
  /\ strong' = r.rc
  /\ call' = r.c
  /\ UNCHANGED <<given, last_op, ret, ncalc, applied, streak, adds, wrote>>

\* A call begins: the modifiers alive at this instant are noted.
Begin(op, modifier, order) ==
  [Idle EXCEPT !.pc = "any", !.op = op, !.i = 1,
               !.modifier = modifier, !.order = order,
               !.start = WeakRefs(stat.modifiers) \cap
                           {t \in SyncTokens : strong[t] > 0},
               !.okvals = ExpectedNow(stat, strong)]

SyncValue ==
  /\ ~Running
  /\ SyncAt(run(Begin("value", None, 0), stat, strong))

SyncAddModifier ==
  /\ ~Running
  /\ \E modifier \in StatModifiers :
       SyncAt(run(Begin("add", Some(modifier), default_order(modifier)),
                  stat, strong))

\* A loop that applies the modifier of a dropped entry before it empties
\* the slot.
syncUpgradeAppliesDropped ==
  /\ Running
  /\ LET meta == unwrap(stat.modifiers[call.i])
         alive == is_some(upgrade(meta.owner_modifier_weak, strong))
         next == [call EXCEPT !.i = call.i + 1]
     IN IF call.pc = "any"
        THEN IF alive
             THEN SyncAt(run(next, stat, strong))
             ELSE SyncAt(run([call EXCEPT !.pc = "sort",
                                          !.final = (call.op = "value")],
                             stat, strong))
        ELSE IF alive
             THEN SyncAt(run([next EXCEPT
                                !.acc = apply(meta.modifier, call.acc)],
                             stat, strong))
             ELSE SyncAt(run([next EXCEPT
                                !.acc = apply(meta.modifier, call.acc)],
                             [stat EXCEPT !.modifiers[call.i] = None],
                             strong))

\* The owner thread's next upgrade(), at slot call.i, and its code up to
\* the following one.
SyncUpgrade ==
  /\ Running
  /\ LET meta == unwrap(stat.modifiers[call.i])
         alive == is_some(upgrade(meta.owner_modifier_weak, strong))
         next == [call EXCEPT !.i = call.i + 1]
     IN IF call.pc = "any"
        THEN IF alive
             THEN SyncAt(run(next, stat, strong))
             ELSE SyncAt(run([call EXCEPT !.pc = "sort",
                                          !.final = (call.op = "value")],
                             stat, strong))
        ELSE IF alive
             THEN SyncAt(run([next EXCEPT
                                !.acc = apply(meta.modifier, call.acc)],
                             stat, strong))
             ELSE SyncAt(run(next,
                             [stat EXCEPT !.modifiers[call.i] = None],
                             strong))

\* Another thread drops the handle of token t: every handle but the one
\* the running add has not returned yet. The modifiers alive at the instant
\* after the drop are noted while a call runs.
SyncDrop ==
  \E t \in SyncTokens :
    /\ strong[t] >= 1
    /\ Running => t # call.key
    /\ strong' = [strong EXCEPT ![t] = strong[t] - 1]
    /\ call' = IF Running
               THEN [call EXCEPT !.okvals = @ \cup ExpectedNow(stat, strong')]
               ELSE Idle
    /\ UNCHANGED <<stat, given, last_op, ret, ncalc, applied, streak, adds,
                   wrote>>

NextSync ==
  \/ SyncValue
  \/ SyncAddModifier
  \/ SyncUpgrade
  \/ SyncDrop

SpecSync == InitSync /\ [][NextSync]_vars

\* ---------------------------------------------------------------- claims
AddOps == {"add_modifier", "add_modifier_with_order"}

\* The tokens with a live handle.
AliveOf(rc) == {t \in Tokens : rc[t] > 0}
Alive == AliveOf(strong)

Range(s) == {s[i] : i \in 1..Len(s)}

\* p lists tokens by the order they were added with, lowest first.
Ascending(p, gv) ==
  \A i, j \in 1..Len(p) :
    i < j => unwrap(gv[p[i]]).order <= unwrap(gv[p[j]]).order

StrictlyAscending(p, gv) ==
  \A i, j \in 1..Len(p) :
    i < j => unwrap(gv[p[i]]).order < unwrap(gv[p[j]]).order

\* acc folded through apply of the modifiers added with the tokens of p.
RECURSIVE FoldGiven(_, _, _)
FoldGiven(acc, p, gv) ==
  IF Len(p) = 0 THEN acc
  ELSE FoldGiven(apply(unwrap(gv[p[1]]).modifier, acc),
                 [i \in 1..(Len(p) - 1) |-> p[i + 1]], gv)

\* The numbers base folds to through the live modifiers in ascending order
\* (one number per way of breaking ties between equal orders).
ExpectedValues(base, rc, gv) ==
  {FoldGiven(base, p, gv) :
     p \in {q \in Orderings(AliveOf(rc)) : Ascending(q, gv)}}

\* C1: with base_value never written, every value() call returns base_value
\* folded through apply of exactly the modifiers that still have a live
\* handle, in ascending order; dropped modifiers contribute nothing.
C1_ValueFoldsLiveModifiers ==
  last_op = "value" => ret.val \in ExpectedValues(stat.base_value, strong, given)

\* A value() call that had to reconcile: a handle was dropped since the last
\* recomputation, and a modifier is still alive.
C1_Witness ==
  /\ last_op = "value"
  /\ ncalc = 1
  /\ Alive # {}
  /\ ret.val # stat.base_value

\* C2: value() called right after a write of a new number to base_value
\* returns the recomputation from the new base_value and the live modifiers.
C2_ValueFreshAfterBaseWrite ==
  [][(last_op = "write_base" /\ last_op' = "value")
       => ret'.val \in ExpectedValues(stat'.base_value, strong', given')]_vars

\* The entries in the array whose owner token has no live handle.
DeadSlots(self, rc) ==
  {i \in 1..M : /\ is_some(self.modifiers[i])
                /\ rc[unwrap(self.modifiers[i]).owner_modifier_weak] = 0}

NoEmptySlot(self) == \A i \in 1..M : is_some(self.modifiers[i])

\* All M slots hold modifiers whose handles are alive.
FullAlive(self, rc) == NoEmptySlot(self) /\ DeadSlots(self, rc) = {}

\* The slots whose entry is owned by token t.
SlotsOf(self, t) ==
  {i \in 1..M : /\ is_some(self.modifiers[i])
                /\ unwrap(self.modifiers[i]).owner_modifier_weak = t}

\* C3: with all M slots holding live modifiers, an add returns Err and leaves
\* the slots, the cached value and base_value as they were, so the next
\* value() returns what it would have returned; the table stays full.
C3_FullAddFailsUnchanged ==
  [][(last_op' \in AddOps /\ FullAlive(stat, strong))
       => /\ ret'.tag = "Err"
          /\ stat' = stat
          /\ strong' = strong
          /\ value(stat', strong').ret = value(stat, strong).ret
          /\ FullAlive(stat', strong')]_vars

\* An add that failed on a full table.
C3_Witness ==
  /\ last_op \in AddOps
  /\ ret.tag = "Err"
  /\ FullAlive(stat, strong)

\* C4: with every slot occupied and the last handle of one of the entries
\* dropped, the next add succeeds, with no value() call in between.
C4_DropFreesCapacity ==
  [][(last_op' \in AddOps /\ NoEmptySlot(stat) /\ DeadSlots(stat, strong) # {})
       => ret'.tag = "Ok"]_vars

\* An add that succeeded by reclaiming a dropped entry of a full table (it
\* ran calculate_value twice and the table is full of live entries again).
C4_Witness ==
  /\ last_op \in AddOps
  /\ ret.tag = "Ok"
  /\ ncalc = 2
  /\ FullAlive(stat, strong)

\* C5: an add succeeds whenever fewer than M modifiers have a live handle,
\* however many dropped entries still occupy slots, and returns a handle to
\* a new token: not live before, alive at return, referenced by one slot,
\* with every other token's handles as they were.
C5_AddSucceedsBelowCapacity ==
  [][(last_op' \in AddOps /\ Cardinality(Alive) < M)
       => /\ ret'.tag = "Ok"
          /\ ret'.val \notin Alive
          /\ strong'[ret'.val] = 1
          /\ \A t \in Tokens \ {ret'.val} : strong'[t] = strong[t]
          /\ Cardinality(SlotsOf(stat', ret'.val)) = 1]_vars

\* A successful add that found dropped entries in the array and returned a
\* token next to another live one.
C5_Witness ==
  /\ last_op \in AddOps
  /\ ret.tag = "Ok"
  /\ ncalc = 2
  /\ \E t \in Alive : t # ret.val

\* C6: a modifier keeps its slot while any clone of its handle is alive, and
\* whenever calculate_value ran it applied exactly the modifiers with a live
\* handle and left exactly their entries in the array: an entry goes only
\* after the last clone was dropped.
C6_SharedOwnership ==
  /\ \A t \in Alive : Cardinality(SlotsOf(stat, t)) = 1
  /\ ncalc >= 1 => /\ Range(applied) = Alive
                   /\ WeakRefs(stat.modifiers) = Alive

\* A clone of a handle was dropped while another clone is alive and other
\* entries are dropped: the modifier is in its slot.
C6_Witness ==
  /\ last_op = "drop"
  /\ strong[ret.val] >= 1
  /\ DeadSlots(stat, strong) # {}
  /\ SlotsOf(stat, ret.val) # {}

PairwiseDifferentOrders(S, gv) ==
  \A t, u \in S : t # u => unwrap(gv[t]).order # unwrap(gv[u]).order

\* C7: live modifiers with pairwise different orders are applied to the
\* accumulator in strictly ascending order, whatever the sequence they were
\* added in, also into slots freed by earlier drops.
C7_AppliedInAscendingOrder ==
  (ncalc >= 1 /\ PairwiseDifferentOrders(Alive, given))
    => /\ Range(applied) = Alive
       /\ Len(applied) = Cardinality(Alive)
       /\ StrictlyAscending(applied, given)

\* An add into a slot freed by a drop whose modifier, added last, has the
\* lowest order and was applied first.
C7_Witness ==
  /\ last_op \in AddOps
  /\ ret.tag = "Ok"
  /\ ncalc = 2
  /\ Len(applied) >= 2
  /\ applied[1] = ret.val
  /\ PairwiseDifferentOrders(Alive, given)

EntryOf(self, key) ==
  unwrap(self.modifiers[CHOOSE i \in SlotsOf(self, key) : TRUE])

\* C9: from the same state add_modifier(m) and
\* add_modifier_with_order(m, m.default_order()) return the same and leave
\* the same slots, orders and cached value, and add_modifier_with_order
\* stores the order the caller supplied.
C9_AddModifierUsesDefaultOrder ==
  /\ \A m \in StatModifiers :
       add_modifier(stat, strong, m)
         = add_modifier_with_order(stat, strong, m, default_order(m))
  /\ \A m \in StatModifiers, o \in Orders :
       LET r == add_modifier_with_order(stat, strong, m, o)
       IN r.ret.tag = "Ok"
            => /\ SlotsOf(r.self, r.ret.val) # {}
               /\ EntryOf(r.self, r.ret.val).order = o
               /\ EntryOf(r.self, r.ret.val).modifier = m
  /\ (last_op \in AddOps /\ ret.tag = "Ok")
       => /\ SlotsOf(stat, ret.val) # {}
          /\ EntryOf(stat, ret.val).order = unwrap(given[ret.val]).order
          /\ EntryOf(stat, ret.val).modifier = unwrap(given[ret.val]).modifier

\* add_modifier stored a modifier whose default order is not zero, in a
\* table that held a dropped entry.
C9_Witness ==
  /\ last_op = "add_modifier"
  /\ ret.tag = "Ok"
  /\ ncalc = 2
  /\ SlotsOf(stat, ret.val) # {}
  /\ EntryOf(stat, ret.val).order = 1

\* C10: a new Stat has all M slots empty and the cached value b; value() on
\* it returns b, and the first M add calls on it succeed.
C10_NewIsEmptyWithBaseValue ==
  /\ Len(stat.modifiers) = M
  /\ adds = 0 => /\ \A i \in 1..M : is_none(stat.modifiers[i])
                 /\ stat.value = stat.base_value
                 /\ last_op = "value" => ret.val = stat.base_value
  /\ (last_op \in AddOps /\ adds <= M) => ret.tag = "Ok"

\* The M-th add call on a Stat succeeded.
C10_Witness ==
  /\ last_op \in AddOps
  /\ adds = M
  /\ ret.tag = "Ok"

\* The calls that reconcile the table.
Calls == AddOps \cup {"value"}

\* C11: when value(), add_modifier or add_modifier_with_order has returned,
\* every slot is empty or holds an entry whose token has a live handle.
C11_NoDeadEntryAfterCall ==
  last_op \in Calls => DeadSlots(stat, strong) = {}

\* A value() call that found a dropped entry and emptied its slot.
C11_Witness ==
  /\ last_op = "value"
  /\ ncalc = 1
  /\ DeadSlots(stat, strong) = {}
  /\ \E i \in 1..M : is_none(stat.modifiers[i])
  /\ Alive # {}

\* C12: a handle drop, the last one included, leaves the slots, the cached
\* value and base_value as they were, and the entry of a token that lost its
\* last handle stays in its slot; the slots and the cached value change at
\* an add or value() call only.
C12_DropLeavesTableAlone ==
  [][/\ last_op' = "drop"
        => /\ stat' = stat
           /\ strong'[ret'.val] = 0
                => /\ SlotsOf(stat', ret'.val) # {}
                   /\ SlotsOf(stat', ret'.val) \subseteq DeadSlots(stat', strong')
     /\ last_op' \notin Calls
        => /\ stat'.modifiers = stat.modifiers
           /\ stat'.value = stat.value]_vars

\* The last handle of a modifier was just dropped: its entry is still in its
\* slot and the cached value still counts it.
C12_Witness ==
  /\ last_op = "drop"
  /\ strong[ret.val] = 0
  /\ SlotsOf(stat, ret.val) # {}
  /\ SlotsOf(stat, ret.val) \subseteq DeadSlots(stat, strong)
  /\ stat.value \notin ExpectedValues(stat.base_value, strong, given)

\* C13: when an add has returned Ok, the cached value is base_value as it is
\* now folded through the live modifiers in ascending order, the new one
\* among them, whether or not base_value was written or handles were dropped
\* since the last recomputation.
C13_AddRecomputes ==
  (last_op \in AddOps /\ ret.tag = "Ok")
    => /\ stat.value \in ExpectedValues(stat.base_value, strong, given)
       /\ ret.val \in Alive
       /\ ret.val \in Range(applied)

\* An add that succeeded on a Stat whose base_value had been written and
\* that held a dropped entry next to a live one.
C13_Witness ==
  /\ last_op \in AddOps
  /\ ret.tag = "Ok"
  /\ wrote = "seen"
  /\ ncalc = 2
  /\ Cardinality(Alive) = 2
  /\ stat.value # stat.base_value

\* The occupied slots.
Occupied(self) == {i \in 1..M : is_some(self.modifiers[i])}

\* C14: in every state the array has M slots, no two occupied slots refer to
\* the same token, and every token with a live handle has exactly one slot,
\* which holds the modifier and the order it was added with; so sorting and
\* emptying the slots of dropped modifiers take no other entry with them.
C14_NoEntryLostOrDuplicated ==
  /\ Len(stat.modifiers) = M
  /\ Cardinality(WeakRefs(stat.modifiers)) = Cardinality(Occupied(stat))
  /\ \A t \in Alive :
       /\ Cardinality(SlotsOf(stat, t)) = 1
       /\ EntryOf(stat, t).modifier = unwrap(given[t]).modifier
       /\ EntryOf(stat, t).order = unwrap(given[t]).order

\* An add found a dropped entry, emptied its slot and stored the new entry;
\* the entry of the other live modifier is still there as it was added.
C14_Witness ==
  /\ last_op \in AddOps
  /\ ret.tag = "Ok"
  /\ ncalc = 2
  /\ Cardinality(Occupied(stat)) = 2
  /\ \E t \in Alive \ {ret.val} :
       /\ Cardinality(SlotsOf(stat, t)) = 1
       /\ EntryOf(stat, t).modifier = unwrap(given[t]).modifier
       /\ EntryOf(stat, t).order = unwrap(given[t]).order

\* An empty slot in front of an occupied one.
EmptyBeforeOccupied(self) ==
  \E i, j \in 1..M :
    i < j /\ is_none(self.modifiers[i]) /\ is_some(self.modifiers[j])

\* The occupied slots hold ascending orders, the empty ones between them
\* left out.
OccupiedAscending(self) ==
  \A i, j \in Occupied(self) :
    i < j => unwrap(self.modifiers[i]).order <= unwrap(self.modifiers[j]).order

\* The entry of slot i sorts in front of the entry of slot j: a lower order,
\* or the same order and a slot further to the front.
SortsBefore(self, i, j) ==
  \/ unwrap(self.modifiers[i]).order < unwrap(self.modifiers[j]).order
  \/ /\ unwrap(self.modifiers[i]).order = unwrap(self.modifiers[j]).order
     /\ i < j

\* The slot the entry of slot j is in after a stable sort of the entries.
Rank(self, j) ==
  1 + Cardinality({i \in Occupied(self) : SortsBefore(self, i, j)})

SlotOf(self, t) == CHOOSE i \in SlotsOf(self, t) : TRUE

\* C15 (as claimed): after any add or value() call that ran calculate_value
\* no empty slot precedes an occupied slot, and the occupied slots form a
\* prefix in ascending order.
C15_EmptySlotsAtEnd ==
  (last_op \in Calls /\ ncalc >= 1)
    => /\ ~EmptyBeforeOccupied(stat)
       /\ OccupiedAscending(stat)

\* C15 (amended): the occupied slots hold ascending orders in every state;
\* after a successful add they form a prefix of the array; a value() call
\* that ran calculate_value leaves each surviving entry in the slot the
\* stable sort of all entries, the dropped ones included, gave it, so the
\* slots of the dropped entries stay empty where they were sorted to.
C15_EmptySlotsWhereSorted ==
  [][/\ OccupiedAscending(stat')
     /\ (last_op' \in AddOps /\ ret'.tag = "Ok")
          => ~EmptyBeforeOccupied(stat')
     /\ (last_op' = "value" /\ ncalc' >= 1)
          => \A t \in WeakRefs(stat'.modifiers) :
               /\ SlotsOf(stat, t) # {}
               /\ SlotOf(stat', t) = Rank(stat, SlotOf(stat, t))]_vars

\* A value() call emptied the slot of a dropped entry that was sorted in
\* front of a live one: the empty slot precedes the occupied slot.
C15_Witness ==
  /\ last_op = "value"
  /\ ncalc = 1
  /\ EmptyBeforeOccupied(stat)
  /\ Alive # {}

\* Token t comes before token u in the sequence p.
Precedes(p, t, u) ==
  \E i, j \in 1..Len(p) : i < j /\ p[i] = t /\ p[j] = u

\* The tokens t and u were added with the same order.
SameOrder(gv, t, u) == unwrap(gv[t]).order = unwrap(gv[u]).order

\* In front of the entry of slot j there is an empty slot, or the entry of a
\* dropped modifier that sorts before it: the place the next add stores in.
RoomInFront(self, rc, j) ==
  IF DeadSlots(self, rc) = {}
  THEN \E i \in 1..(j - 1) : is_none(self.modifiers[i])
  ELSE \E d \in DeadSlots(self, rc) : SortsBefore(self, d, j)

reverse(o) ==
  IF o = "Less" THEN "Greater" ELSE IF o = "Greater" THEN "Less" ELSE "Equal"

\* C18: the closure given to sort_by is a total order on the slots of the
\* array: for any two slots a and b, compare(a, b) is the reverse of
\* compare(b, a), compare(a, a) is Equal, two occupied slots compare as
\* their orders do, and an empty slot is Greater than an occupied one.
C18_CompareIsTotalOrder ==
  \A i, j \in 1..M :
    LET a == stat.modifiers[i]
        b == stat.modifiers[j]
    IN /\ compare(a, b) = reverse(compare(b, a))
       /\ compare(a, a) = "Equal"
       /\ (is_some(a) /\ is_some(b))
            => /\ compare(a, b) = "Less" <=> unwrap(a).order < unwrap(b).order
               /\ compare(a, b) = "Equal" <=> unwrap(a).order = unwrap(b).order
       /\ (is_none(a) /\ is_some(b)) => compare(a, b) = "Greater"

\* The occupied slots of the shared Stat, and their orders ascending.
SyncOccupied(self) ==
  {i \in 1..Len(self.modifiers) : is_some(self.modifiers[i])}

SyncOccupiedAscending(self) ==
  \A i, j \in SyncOccupied(self) :
    i < j => unwrap(self.modifiers[i]).order <= unwrap(self.modifiers[j]).order

\* The slots of S from the front of the array to its end.
SlotSequence(S) ==
  [k \in 1..Cardinality(S) |->
     CHOOSE i \in S : Cardinality({j \in S : j < i}) = k - 1]

\* C17 (as claimed): the value a call produces while handles are dropped on
\* other threads, returned by value() or cached by an add, is the
\* recomputation over the modifiers alive at one instant between the call's
\* start and its return.
C17_AtomicSnapshot ==
  (call.pc = "done" /\ call.ret.tag # "Err")
    => /\ stat.value \in call.okvals
       /\ call.ret.tag = "f32" => call.ret.val \in call.okvals

\* C17 (amended): the liveness of each modifier is read once, at the
\* upgrade() of its own slot. When the call returns, the value is the fold of
\* the entries left in the slots in slot sequence, in ascending order; they
\* include every modifier alive at the return, and apart from the one just
\* added only modifiers that were alive when the call started.
C17_LivenessReadPerSlot ==
  call.pc = "done"
    => /\ stat.value =
            FoldSlots(stat.base_value, SlotSequence(SyncOccupied(stat)),
                      stat.modifiers)
       /\ call.ret.tag = "f32" => call.ret.val = stat.value
       /\ SyncOccupiedAscending(stat)
       /\ \A t \in SyncTokens : strong[t] > 0 => t \in WeakRefs(stat.modifiers)
       /\ WeakRefs(stat.modifiers) \ {call.key} \subseteq call.start

\* A call returned a value that is the recomputation over the modifiers
\* alive at no instant of the call: a modifier dropped after its slot was
\* visited is counted, one that was dropped later, before its own slot was
\* visited, is not.
C17_Witness ==
  /\ call.pc = "done"
  /\ call.ret.tag = "f32"
  /\ call.ret.val \notin call.okvals
  /\ \E i \in SyncOccupied(stat) :
       strong[unwrap(stat.modifiers[i]).owner_modifier_weak] = 0

TypeOK ==
  /\ stat.base_value \in BaseValues
  /\ Len(stat.modifiers) = M
  /\ strong \in [Tokens -> 0..(MaxClones + 1)]
  /\ streak \in 0..MaxStreak
  /\ adds \in 0..(M + 1)
  /\ wrote \in {"no", "pending", "seen"}
  /\ call = Idle

====
